---- MODULE Spec2Model ----
(***************************************************************************)
(* Model of ServerState (src/lib/server/server_state.py): the session      *)
(* controller of the preference-collection kiosk.  Every field of the      *)
(* object that a handler branches on or writes is a variable; the          *)
(* generation pipeline (handle_generation) is a background task whose      *)
(* suspension points are its two backend calls, so it is split at them     *)
(* and the other handlers may run in between.                              *)
(*                                                                         *)
(* Not modelled: the wall-clock fields (my_error_time,                     *)
(* my_last_interaction_time, the record's 'timestamp'), my_error, and the  *)
(* fixed sampling parameters of the two requests; no handler reads them.   *)
(* The sampling randomness of the backends is not modelled either: what a  *)
(* call returns is identified by the backend and the prompt of its         *)
(* request.                                                                *)
(* uuid.uuid4() is modelled as a generator of fresh values (successive     *)
(* naturals), i.e. under the usual assumption that 122 random bits do not  *)
(* collide.                                                                *)
(***************************************************************************)
EXTENDS Integers, Sequences, FiniteSets, TLC

VARIABLES
    pc,                    \* "new": object not yet constructed; "ready": __init__ returned
    my_state,              \* self.my_state
    prompts,               \* self.prompts
    current_prompt_index,  \* self.current_prompt_index
    my_prompt,             \* self.my_prompt
    my_model,              \* self.my_model
    my_result_a,           \* self.my_result_a  (a string: sequence of pieces, "" is << >>)
    my_result_b,           \* self.my_result_b
    my_human_preference,   \* self.my_human_preference
    button_pressed,        \* self.button_pressed
    my_uuid,               \* self.my_uuid
    my_task,               \* position of the task running handle_generation
    kwargs_prompt,         \* the prompt inside the request of the call in flight
    results_dir,           \* the files of /results: uuid |-> the file holds a complete record
    last_written,          \* the uuid and the data of the file written last
    last_op,               \* the handler, or part of handle_generation, that ran last
    raised,                \* the exception it raised, or "none"
    printed,               \* the diagnostics it printed
    load_failed,           \* history: load_prompts took its except branch
    staged_log,            \* history: the index used by each get_next_prompt that staged a prompt
    task_uuid,             \* history: my_uuid when the running task was started
    first_choice           \* history: the first preference registered since the last reset

vars == <<pc, my_state, prompts, current_prompt_index, my_prompt, my_model,
          my_result_a, my_result_b, my_human_preference, button_pressed,
          my_uuid, my_task, kwargs_prompt, results_dir, last_written, last_op,
          raised, printed, load_failed, staged_log, task_uuid, first_choice>>

----------------------------------------------------------------------------
\* Bounds of the model.

\* longest prompts.json considered
MaxPrompts == 2
\* number of uuid4() calls after which no further session is started
MaxSessions == 3
\* longest result, in outputs, on which a further run is not started (a run
\* of the text pipeline on a session that has results appends to them)
MaxResultLen == 2

\* Python's None
None == "None"

\* Entries a prompts.json may hold: a prompt text and a model tag, one for
\* each tag the handlers recognise and one for a tag they do not.
Entries ==
    { [prompt |-> "p_claude", model |-> "claude"],
      [prompt |-> "p_sdxl",   model |-> "sdxl"],
      [prompt |-> "p_other",  model |-> "other"] }

\* The contents prompts.json may have: up to MaxPrompts entries, each listed
\* once.
PromptFiles ==
    { pl \in UNION { [1..n -> Entries] : n \in 0..MaxPrompts } :
        \A i, j \in DOMAIN pl : pl[i] = pl[j] => i = j }

\* What a backend returns for a request, as far as the handlers can tell:
\* which backend was called and which prompt the request held.  A string is
\* modelled as the sequence of the outputs it is the concatenation of, so ""
\* is << >> and s += t is s \o t.  whole is FALSE for the beginning of a text
\* completion whose stream broke before its end.
Output(kind, p, whole) == [kind |-> kind, prompt |-> p, whole |-> whole]

\* Mutant of Record: result_a and result_b are exchanged.
Record_swapped(p, m, a, b, h) ==
    [instruction |-> p, model |-> m, prompt |-> p,
     result_a |-> b, result_b |-> a, human_preference |-> h]

\* The fields of a record written by save_results (lines 197-205), but for
\* the timestamp.
Record(p, m, a, b, h) ==
    [instruction |-> p, model |-> m, prompt |-> p,
     result_a |-> a, result_b |-> b, human_preference |-> h]

\* The disk.  No handler ever reads a file of /results and a file is written
\* in one piece under the uuid of the session, so the model keeps the
\* directory (which files exist, and whether each holds a complete JSON
\* record or is what json.dump left when it failed after open(..., "w") had
\* created the file) and the content of the file written last.
NoFile == [uuid |-> 0, data |-> Record(None, None, << >>, << >>, None)]

\* uuid.uuid4(): a value that was never issued before.
uuid4(last) == last + 1

----------------------------------------------------------------------------
\* __init__, lines 18-36: the fields before load_prompts is called.
Init ==
    /\ pc = "new"
    /\ my_state = "INITIALIZING"
    /\ prompts = << >>
    /\ current_prompt_index = 0
    /\ my_prompt = None
    /\ my_model = None
    /\ my_result_a = << >>
    /\ my_result_b = << >>
    /\ my_human_preference = None
    /\ button_pressed = FALSE
    /\ my_uuid = uuid4(0)
    /\ my_task = "idle"
    /\ kwargs_prompt = None
    /\ results_dir = << >>
    /\ last_written = NoFile
    /\ last_op = "none"
    /\ raised = "none"
    /\ printed = {}
    /\ load_failed = FALSE
    /\ staged_log = << >>
    /\ task_uuid = 0
    /\ first_choice = None

\* Mutant of WrapIndex: the comparison is > instead of >=.
WrapIndex_gt(i, n) == IF i > n THEN 0 ELSE i

\* get_next_prompt, lines 61-62: loop back to the start.
WrapIndex(i, n) == IF i >= n THEN 0 ELSE i

\* Mutant of ClearSession: line 55 is missing, my_result_b is kept.
ClearSession_keeps_result_b ==
    /\ my_uuid < MaxSessions
    /\ my_result_a' = << >>
    /\ my_result_b' = my_result_b
    /\ my_human_preference' = None
    /\ first_choice' = None
    /\ button_pressed' = FALSE
    /\ my_state' = "TRANSCRIBING"
    /\ my_uuid' = uuid4(my_uuid)

\* Mutant of ClearSession: line 59 is missing, the uuid is kept.
ClearSession_keeps_uuid ==
    /\ my_uuid < MaxSessions
    /\ my_result_a' = << >>
    /\ my_result_b' = << >>
    /\ my_human_preference' = None
    /\ first_choice' = None
    /\ button_pressed' = FALSE
    /\ my_state' = "TRANSCRIBING"
    /\ my_uuid' = my_uuid

\* get_next_prompt, lines 54-59: the fields of the session are reset and a
\* new uuid is drawn.
ClearSession ==
    /\ my_uuid < MaxSessions
    /\ my_result_a' = << >>
    /\ my_result_b' = << >>
    /\ my_human_preference' = None
    /\ first_choice' = None
    /\ button_pressed' = FALSE
    /\ my_state' = "TRANSCRIBING"
    /\ my_uuid' = uuid4(my_uuid)

\* Mutant of ResetSession: the test of line 60 is missing, so an empty list
\* is indexed.
ResetSession_no_empty_test(pl, msgs) ==
    /\ ClearSession
    /\ LET idx == WrapIndex(current_prompt_index, Len(pl)) IN
       IF idx \in 0..(Len(pl) - 1)
       THEN /\ my_prompt' = pl[idx + 1].prompt
            /\ my_model' = pl[idx + 1].model
            /\ current_prompt_index' = idx + 1
            /\ staged_log' = Append(staged_log, idx)
            /\ raised' = "none"
            /\ printed' = msgs
       ELSE /\ raised' = "IndexError"
            /\ printed' = msgs
            /\ UNCHANGED <<my_prompt, my_model, current_prompt_index, staged_log>>

\* get_next_prompt, lines 54-69, run on the prompt list pl; msgs is what the
\* caller has printed before.  pl[idx + 1] is Python's pl[idx]; an index
\* outside the list raises IndexError after the fields above it are written.
ResetSession(pl, msgs) ==
    /\ ClearSession
    /\ IF pl # << >>
       THEN LET idx == WrapIndex(current_prompt_index, Len(pl)) IN
            IF idx \in 0..(Len(pl) - 1)
            THEN /\ my_prompt' = pl[idx + 1].prompt
                 /\ my_model' = pl[idx + 1].model
                 /\ current_prompt_index' = idx + 1
                 /\ staged_log' = Append(staged_log, idx)
                 /\ raised' = "none"
                 /\ printed' = msgs
            ELSE /\ raised' = "IndexError"
                 /\ printed' = msgs
                 /\ UNCHANGED <<my_prompt, my_model, current_prompt_index, staged_log>>
       ELSE /\ raised' = "none"
            /\ printed' = msgs \cup {"No prompts are loaded."}
            /\ UNCHANGED <<my_prompt, my_model, current_prompt_index, staged_log>>

\* __init__, lines 38-39: load_prompts("prompts.json") (lines 41-49), where
\* the file either parses to a prompt list or the except branch runs and
\* sets my_state to ERROR, and then get_next_prompt, which assigns my_state
\* again.
Initialize ==
    /\ pc = "new"
    /\ pc' = "ready"
    /\ last_op' = "__init__"
    /\ \E ok \in BOOLEAN :
         /\ load_failed' = ~ok
         /\ IF ok
            THEN \E pl \in PromptFiles :
                    prompts' = pl /\ ResetSession(pl, {})
            ELSE /\ prompts' = prompts
                 /\ ResetSession(prompts, {"An error occurred while loading prompts"})
    /\ UNCHANGED <<my_task, kwargs_prompt, results_dir, last_written, task_uuid>>

\* get_next_prompt called on its own by the driver of the kiosk.
get_next_prompt ==
    /\ pc = "ready"
    /\ last_op' = "get_next_prompt"
    /\ ResetSession(prompts, {})
    /\ UNCHANGED <<pc, prompts, my_task, kwargs_prompt, results_dir,
                   last_written, load_failed, task_uuid>>

\* Mutant of Recognised: the elif of line 79 / 92 is an else, so every tag
\* but "claude" is handled as an image model.
Recognised_else_img(model) == TRUE

\* The model tags the handlers have a branch for (lines 77-80, 90-93).
Recognised(model) == model \in {"claude", "sdxl"}

\* Mutant of SelectState: the "sdxl" branch sets the state of the "claude"
\* branch (lines 80 and 93 copied from 78 and 91).
SelectState_always_txt(button, model) == "SELECT_" \o button \o "_TXT"

\* The SELECT_* state of a button for a recognised model (lines 77-80, 90-93).
SelectState(button, model) ==
    IF model = "claude" THEN "SELECT_" \o button \o "_TXT"
                        ELSE "SELECT_" \o button \o "_IMG"

\* Mutant of ButtonCallback: a preference that is set is not overwritten.
ButtonCallback_first_wins(pref, button) ==
    /\ pc = "ready"
    /\ last_op' = IF pref = "a" THEN "red_button_callback" ELSE "blue_button_callback"
    /\ my_human_preference' =
          IF my_human_preference = None THEN pref ELSE my_human_preference
    /\ first_choice' = IF first_choice = None THEN pref ELSE first_choice
    /\ button_pressed' = TRUE
    /\ IF Recognised(my_model)
       THEN my_state' = SelectState(button, my_model) /\ raised' = "none"
       ELSE my_state' = my_state /\ raised' = "ValueError"
    /\ printed' = {}
    /\ UNCHANGED <<pc, prompts, current_prompt_index, my_prompt, my_model,
                   my_result_a, my_result_b, my_uuid, my_task, kwargs_prompt,
                   results_dir, last_written, load_failed, staged_log, task_uuid>>

\* Mutant of ButtonCallback: both handlers record 'a' (line 86 copied from
\* line 73).
ButtonCallback_always_a(pref, button) ==
    /\ pc = "ready"
    /\ last_op' = IF pref = "a" THEN "red_button_callback" ELSE "blue_button_callback"
    /\ my_human_preference' = "a"
    /\ first_choice' = IF first_choice = None THEN "a" ELSE first_choice
    /\ button_pressed' = TRUE
    /\ IF Recognised(my_model)
       THEN my_state' = SelectState(button, my_model) /\ raised' = "none"
       ELSE my_state' = my_state /\ raised' = "ValueError"
    /\ printed' = {}
    /\ UNCHANGED <<pc, prompts, current_prompt_index, my_prompt, my_model,
                   my_result_a, my_result_b, my_uuid, my_task, kwargs_prompt,
                   results_dir, last_written, load_failed, staged_log, task_uuid>>

\* red_button_callback / blue_button_callback, lines 71-95; pref is 'a' or
\* 'b' and button the letter in the state's name.
ButtonCallback(pref, button) ==
    /\ pc = "ready"
    /\ last_op' = IF pref = "a" THEN "red_button_callback" ELSE "blue_button_callback"
    /\ my_human_preference' = pref
    /\ first_choice' = IF first_choice = None THEN pref ELSE first_choice
    /\ button_pressed' = TRUE
    /\ IF Recognised(my_model)
       THEN my_state' = SelectState(button, my_model) /\ raised' = "none"
       ELSE my_state' = my_state /\ raised' = "ValueError"
    /\ printed' = {}
    /\ UNCHANGED <<pc, prompts, current_prompt_index, my_prompt, my_model,
                   my_result_a, my_result_b, my_uuid, my_task, kwargs_prompt,
                   results_dir, last_written, load_failed, staged_log, task_uuid>>

red_button_callback == ButtonCallback("a", "A")

blue_button_callback == ButtonCallback("b", "B")

----------------------------------------------------------------------------
\* The generation pipeline.  my_task is "idle" when no task runs and
\* otherwise names the backend call the task is suspended in; the branch of
\* handle_generation the task took is part of that position, because the
\* dispatch on my_model is done once, at line 181/185.

\* handle_generation, lines 181-190, up to the first backend call: for
\* "claude" call_claude2 builds its request (lines 99-118) and issues call A
\* (line 121); for "sdxl" invoke_sdxl builds its request (lines 147-163) and
\* issues call A (line 166); otherwise ValueError, before any assignment.
handle_generation ==
    /\ pc = "ready"
    /\ last_op' = "handle_generation"
    /\ my_task = "idle"
    /\ Len(my_result_a) < MaxResultLen
    /\ Len(my_result_b) < MaxResultLen
    /\ IF my_model = "claude"
       THEN /\ my_state' = "INFERENCE_TXT_A"
            /\ my_task' = "txt_a"
            /\ kwargs_prompt' = my_prompt
            /\ task_uuid' = my_uuid
            /\ raised' = "none"
       ELSE IF my_model = "sdxl"
       THEN /\ my_state' = "INFERENCE_IMG_A"
            /\ my_task' = "img_a"
            /\ kwargs_prompt' = my_prompt
            /\ task_uuid' = my_uuid
            /\ raised' = "none"
       ELSE /\ raised' = "ValueError"
            /\ UNCHANGED <<my_state, my_task, kwargs_prompt, task_uuid>>
    /\ printed' = {}
    /\ UNCHANGED <<pc, prompts, current_prompt_index, my_prompt, my_model,
                   my_result_a, my_result_b, my_human_preference,
                   button_pressed, my_uuid, results_dir, last_written, load_failed,
                   staged_log, first_choice>>

\* call_claude2, lines 122-134: the stream of call A delivers the chunks of
\* the completion, each appended to my_result_a; then the state changes and
\* call B is issued with the same kwargs.
call_claude2_a ==
    /\ my_task = "txt_a"
    /\ last_op' = "call_claude2_a"
    /\ my_result_a' = my_result_a \o <<Output("txt", kwargs_prompt, TRUE)>>
    /\ my_state' = "INFERENCE_TXT_B"
    /\ my_task' = "txt_b"
    /\ raised' = "none"
    /\ printed' = {}
    /\ UNCHANGED <<pc, prompts, current_prompt_index, my_prompt, my_model,
                   my_result_b, my_human_preference, button_pressed, my_uuid,
                   kwargs_prompt, results_dir, last_written, load_failed, staged_log,
                   task_uuid, first_choice>>

\* Mutant of call_claude2_b: line 141 appends to my_result_a, as line 128.
call_claude2_b_wrong_slot ==
    /\ my_task = "txt_b"
    /\ last_op' = "call_claude2_b"
    /\ my_result_a' = my_result_a \o <<Output("txt", kwargs_prompt, TRUE)>>
    /\ my_state' = "REVIEW_TXT"
    /\ my_task' = "idle"
    /\ raised' = "none"
    /\ printed' = {}
    /\ UNCHANGED <<pc, prompts, current_prompt_index, my_prompt, my_model,
                   my_result_b, my_human_preference, button_pressed, my_uuid,
                   kwargs_prompt, results_dir, last_written, load_failed,
                   staged_log, task_uuid, first_choice>>

\* call_claude2, lines 135-143, then handle_generation, lines 184 and 192:
\* the stream of call B is appended to my_result_b, the state becomes
\* REVIEW_TXT and the task cancels itself.
call_claude2_b ==
    /\ my_task = "txt_b"
    /\ last_op' = "call_claude2_b"
    /\ my_result_b' = my_result_b \o <<Output("txt", kwargs_prompt, TRUE)>>
    /\ my_state' = "REVIEW_TXT"
    /\ my_task' = "idle"
    /\ raised' = "none"
    /\ printed' = {}
    /\ UNCHANGED <<pc, prompts, current_prompt_index, my_prompt, my_model,
                   my_result_a, my_human_preference, button_pressed, my_uuid,
                   kwargs_prompt, results_dir, last_written, load_failed, staged_log,
                   task_uuid, first_choice>>

\* handle_image_gen, lines 173-176: call A returns an image, which replaces
\* my_result_a; the state changes and invoke_sdxl builds the request of
\* call B from the prompt the session has now.
handle_image_gen_a ==
    /\ my_task = "img_a"
    /\ last_op' = "handle_image_gen_a"
    /\ my_result_a' = <<Output("img", kwargs_prompt, TRUE)>>
    /\ my_state' = "INFERENCE_IMG_B"
    /\ my_task' = "img_b"
    /\ kwargs_prompt' = my_prompt
    /\ raised' = "none"
    /\ printed' = {}
    /\ UNCHANGED <<pc, prompts, current_prompt_index, my_prompt, my_model,
                   my_result_b, my_human_preference, button_pressed, my_uuid,
                   results_dir, last_written, load_failed, staged_log,
                   task_uuid, first_choice>>

\* Mutant of handle_image_gen_b: handle_generation returns without the
\* assignment of line 189, so the state stays INFERENCE_IMG_B.
handle_image_gen_b_no_review ==
    /\ my_task = "img_b"
    /\ last_op' = "handle_image_gen_b"
    /\ my_result_b' = <<Output("img", kwargs_prompt, TRUE)>>
    /\ my_state' = my_state
    /\ my_task' = "idle"
    /\ raised' = "none"
    /\ printed' = {}
    /\ UNCHANGED <<pc, prompts, current_prompt_index, my_prompt, my_model,
                   my_result_a, my_human_preference, button_pressed, my_uuid,
                   kwargs_prompt, results_dir, last_written, load_failed, staged_log,
                   task_uuid, first_choice>>

\* handle_image_gen, lines 176-177, then handle_generation, lines 188 and
\* 192: call B returns, its image replaces my_result_b, the state becomes
\* REVIEW_IMG and the task cancels itself.
handle_image_gen_b ==
    /\ my_task = "img_b"
    /\ last_op' = "handle_image_gen_b"
    /\ my_result_b' = <<Output("img", kwargs_prompt, TRUE)>>
    /\ my_state' = "REVIEW_IMG"
    /\ my_task' = "idle"
    /\ raised' = "none"
    /\ printed' = {}
    /\ UNCHANGED <<pc, prompts, current_prompt_index, my_prompt, my_model,
                   my_result_a, my_human_preference, button_pressed, my_uuid,
                   kwargs_prompt, results_dir, last_written, load_failed, staged_log,
                   task_uuid, first_choice>>

\* Mutant of backend_fails: the exception is caught and the controller put
\* in ERROR.
backend_fails_enters_error ==
    /\ my_task # "idle"
    /\ last_op' = "backend_fails"
    /\ my_state' = "ERROR"
    /\ my_task' = "idle"
    /\ raised' = "none"
    /\ printed' = {}
    /\ UNCHANGED <<pc, prompts, current_prompt_index, my_prompt, my_model,
                   my_result_a, my_result_b, my_human_preference,
                   button_pressed, my_uuid, kwargs_prompt, results_dir,
                   last_written, load_failed, staged_log, task_uuid,
                   first_choice>>

\* A backend call raises (lines 121, 134, 166 and the streams read at 124
\* and 137).  Nothing catches it: the task ends where it is.  A text stream
\* may have delivered some of its chunks before it broke.
backend_fails ==
    /\ my_task # "idle"
    /\ last_op' = "backend_fails"
    /\ \E delivered \in BOOLEAN :
         LET part == IF delivered
                     THEN <<Output("txt", kwargs_prompt, FALSE)>>
                     ELSE << >> IN
         /\ my_result_a' = IF my_task = "txt_a" THEN my_result_a \o part ELSE my_result_a
         /\ my_result_b' = IF my_task = "txt_b" THEN my_result_b \o part ELSE my_result_b
    /\ my_task' = "idle"
    /\ raised' = "BackendError"
    /\ printed' = {}
    /\ UNCHANGED <<pc, my_state, prompts, current_prompt_index, my_prompt,
                   my_model, my_human_preference, button_pressed, my_uuid,
                   kwargs_prompt, results_dir, last_written, load_failed, staged_log,
                   task_uuid, first_choice>>

----------------------------------------------------------------------------
\* The outcomes of the write at lines 207-211.
IoOutcomes == {"ok", "open_fails", "dump_fails"}

\* Mutant of WriteFile: a file that json.dump did not finish counts as a
\* record.
WriteFile_keeps_broken(dir, u, io) ==
    IF io = "open_fails"
    THEN dir
    ELSE [v \in (DOMAIN dir) \cup {u} |-> IF v = u THEN TRUE ELSE dir[v]]

\* Lines 207-211 on the directory dir: open(..., "w") creates or truncates
\* the file of uuid u, json.dump fills it; an exception of either is caught.
WriteFile(dir, u, io) ==
    IF io = "open_fails"
    THEN dir
    ELSE [v \in (DOMAIN dir) \cup {u} |-> IF v = u THEN io = "ok" ELSE dir[v]]

\* Mutant of save_results: without a preference it returns at once, and
\* get_next_prompt is reached only after a write.
save_results_early_return ==
    /\ pc = "ready"
    /\ last_op' = "save_results"
    /\ IF my_human_preference # None
       THEN \E io \in IoOutcomes :
              /\ results_dir' = WriteFile(results_dir, my_uuid, io)
              /\ last_written' =
                    IF io = "open_fails"
                    THEN last_written
                    ELSE [uuid |-> my_uuid,
                          data |-> Record(my_prompt, my_model, my_result_a,
                                          my_result_b, my_human_preference)]
              /\ ResetSession(prompts,
                    IF io = "ok" THEN {}
                    ELSE {"An error occurred while saving results"})
       ELSE /\ raised' = "none"
            /\ printed' = {}
            /\ UNCHANGED <<results_dir, last_written, my_result_a, my_result_b,
                           my_human_preference, first_choice, button_pressed,
                           my_state, my_uuid, my_prompt, my_model,
                           current_prompt_index, staged_log>>
    /\ UNCHANGED <<pc, prompts, my_task, kwargs_prompt, load_failed, task_uuid>>

\* save_results, lines 196-212.
save_results ==
    /\ pc = "ready"
    /\ last_op' = "save_results"
    /\ IF my_human_preference # None
       THEN \E io \in IoOutcomes :
              /\ results_dir' = WriteFile(results_dir, my_uuid, io)
              /\ last_written' =
                    IF io = "open_fails"
                    THEN last_written
                    ELSE [uuid |-> my_uuid,
                          data |-> Record(my_prompt, my_model, my_result_a,
                                          my_result_b, my_human_preference)]
              /\ ResetSession(prompts,
                    IF io = "ok" THEN {}
                    ELSE {"An error occurred while saving results"})
       ELSE /\ UNCHANGED <<results_dir, last_written>>
            /\ ResetSession(prompts, {})
    /\ UNCHANGED <<pc, prompts, my_task, kwargs_prompt, load_failed, task_uuid>>

Next ==
    \/ Initialize
    \/ get_next_prompt
    \/ red_button_callback
    \/ blue_button_callback
    \/ handle_generation
    \/ call_claude2_a
    \/ call_claude2_b
    \/ handle_image_gen_a
    \/ handle_image_gen_b
    \/ backend_fails
    \/ save_results

Spec == Init /\ [][Next]_vars

\* The complete records on disk.
Records == { u \in DOMAIN results_dir : results_dir[u] }

TypeOK ==
    /\ pc \in {"new", "ready"}
    /\ my_uuid \in 1..MaxSessions
    /\ my_task \in {"idle", "txt_a", "txt_b", "img_a", "img_b"}
    /\ my_human_preference \in {None, "a", "b"}
    /\ button_pressed \in BOOLEAN
    /\ current_prompt_index \in 0..MaxPrompts

----------------------------------------------------------------------------
\* The operations that end with get_next_prompt.
ResetOps == {"__init__", "get_next_prompt", "save_results"}

\* The two button handlers.
ButtonOps == {"red_button_callback", "blue_button_callback"}

\* The steps of the generation pipeline.
PipelineOps == {"handle_generation", "call_claude2_a", "call_claude2_b",
                "handle_image_gen_a", "handle_image_gen_b", "backend_fails"}

\* The index get_next_prompt stages when the cursor is i and the list has n
\* entries, n > 0: the cursor modulo the length.
NextIndex(i, n) == i % n

\* C1: on a prompt list of length N the k-th get_next_prompt that stages a
\* prompt uses index (k - 1) mod N, so N + 1 calls use 0, 1, ..., N - 1, 0;
\* the index used is always inside the list and no IndexError is raised,
\* whatever else runs between the calls.
C1_CursorCyclic ==
    /\ raised # "IndexError"
    /\ \A k \in 1..Len(staged_log) :
         /\ staged_log[k] = (k - 1) % Len(prompts)
         /\ staged_log[k] \in 0..(Len(prompts) - 1)
    /\ prompts # << >> =>
         /\ Len(staged_log) = my_uuid - 1
         /\ my_prompt = prompts[staged_log[Len(staged_log)] + 1].prompt
         /\ my_model = prompts[staged_log[Len(staged_log)] + 1].model

\* C1 witness: a list of one prompt after N + 1 = 2 resets, index 0 staged
\* twice, with a button press and a save in between.
C1_Witness ==
    /\ Len(prompts) = 1
    /\ staged_log = <<0, 0>>
    /\ DOMAIN results_dir # {}

\* C2: right after an operation that performs get_next_prompt, both results
\* are empty, the preference is unset, button_pressed is false and the state
\* is TRANSCRIBING.
C2_ResetClears ==
    last_op \in ResetOps =>
        /\ my_result_a = << >>
        /\ my_result_b = << >>
        /\ my_human_preference = None
        /\ button_pressed = FALSE
        /\ my_state = "TRANSCRIBING"

\* C2 witness: a reset that followed a session with both results populated
\* and a preference recorded (the record of that session is on disk).
C2_Witness ==
    /\ last_op = "save_results"
    /\ last_written.uuid = my_uuid - 1
    /\ last_written.data.result_a # << >>
    /\ last_written.data.result_b # << >>
    /\ last_written.data.human_preference = "b"
    /\ my_result_a = << >>
    /\ my_result_b = << >>
    /\ my_human_preference = None

\* C3: with a recognised model, right after red_button_callback the
\* preference is 'a', button_pressed is true and the state is the SELECT_A
\* state of the model; right after blue_button_callback the same holds with
\* 'b' and SELECT_B, whatever was chosen before in the session.
C3_LastChoiceInEffect ==
    /\ (last_op = "red_button_callback" /\ my_model \in {"claude", "sdxl"}) =>
          /\ my_human_preference = "a"
          /\ button_pressed = TRUE
          /\ my_state = IF my_model = "claude" THEN "SELECT_A_TXT" ELSE "SELECT_A_IMG"
    /\ (last_op = "blue_button_callback" /\ my_model \in {"claude", "sdxl"}) =>
          /\ my_human_preference = "b"
          /\ button_pressed = TRUE
          /\ my_state = IF my_model = "claude" THEN "SELECT_B_TXT" ELSE "SELECT_B_IMG"

\* C3 witness: red then blue within one session of an image prompt.
C3_Witness ==
    /\ last_op = "blue_button_callback"
    /\ first_choice = "a"
    /\ my_human_preference = "b"
    /\ my_model = "sdxl"
    /\ my_state = "SELECT_B_IMG"

\* C4 as stated: the preference is unset until a button handler fires, and
\* once set it keeps its value until the next reset.
C4_PreferenceImmutable ==
    [][ /\ (my_human_preference = None /\ my_human_preference' # None)
            => last_op' \in ButtonOps
        /\ (my_human_preference # None /\ my_uuid' = my_uuid)
            => my_human_preference' = my_human_preference ]_vars

\* C4 as amended: the preference is unset until a button handler fires; once
\* set it is changed only by a button handler, which replaces it with its own
\* value, or by a reset, which unsets it; the pipeline never changes it.
C4_PreferenceChangedByButtonsOnly ==
    [][ my_human_preference' # my_human_preference =>
          \/ last_op' = "red_button_callback" /\ my_human_preference' = "a"
          \/ last_op' = "blue_button_callback" /\ my_human_preference' = "b"
          \/ last_op' \in ResetOps /\ my_human_preference' = None ]_vars

\* C4 witness: the pipeline has completed on a session whose preference was
\* first 'a' and then replaced by 'b'.
C4_Witness ==
    /\ last_op = "handle_image_gen_b"
    /\ first_choice = "a"
    /\ my_human_preference = "b"
    /\ task_uuid = my_uuid

\* The last piece of a result string; no output when the string is empty.
LastOutput(r) == IF r = << >> THEN Output(None, None, FALSE) ELSE r[Len(r)]

\* C5: a run started on a text session sets INFERENCE_TXT_A, then
\* INFERENCE_TXT_B when call A has returned, and REVIEW_TXT when call B has
\* returned; a run started on an image session does the same with the IMG
\* states.  When the run ends, and the session it was started on is still the
\* current one, both results end with a whole output of the session's prompt
\* from the backend of the session's model.
C5_GenerationEndsInReview ==
    [][ /\ (last_op' = "handle_generation" /\ my_model = "claude")
            => (my_state' = "INFERENCE_TXT_A" /\ my_task' = "txt_a")
        /\ (last_op' = "handle_generation" /\ my_model = "sdxl")
            => (my_state' = "INFERENCE_IMG_A" /\ my_task' = "img_a")
        /\ (my_task = "txt_a" /\ last_op' = "call_claude2_a")
            => (my_state' = "INFERENCE_TXT_B" /\ my_task' = "txt_b")
        /\ (my_task = "img_a" /\ last_op' = "handle_image_gen_a")
            => (my_state' = "INFERENCE_IMG_B" /\ my_task' = "img_b")
        /\ (my_task = "txt_b" /\ last_op' = "call_claude2_b")
            => /\ my_state' = "REVIEW_TXT"
               /\ task_uuid = my_uuid =>
                    /\ my_model = "claude"
                    /\ LastOutput(my_result_a') = Output("txt", my_prompt, TRUE)
                    /\ LastOutput(my_result_b') = Output("txt", my_prompt, TRUE)
        /\ (my_task = "img_b" /\ last_op' = "handle_image_gen_b")
            => /\ my_state' = "REVIEW_IMG"
               /\ task_uuid = my_uuid =>
                    /\ my_model = "sdxl"
                    /\ my_result_a' = <<Output("img", my_prompt, TRUE)>>
                    /\ my_result_b' = <<Output("img", my_prompt, TRUE)>> ]_vars

\* C5 witness: a text run has just ended on the session it was started on.
C5_Witness ==
    /\ last_op = "call_claude2_b"
    /\ task_uuid = my_uuid
    /\ my_model = "claude"
    /\ my_state = "REVIEW_TXT"
    /\ my_result_a # << >>
    /\ my_result_b # << >>

\* C6: when the model is unset or an unrecognised tag, handle_generation and
\* both button handlers raise ValueError, leave my_state as it was and issue
\* no backend call.
C6_UnknownModelNoTransition ==
    [][ (last_op' \in ButtonOps \cup {"handle_generation"}
         /\ my_model \notin {"claude", "sdxl"})
        => /\ raised' = "ValueError"
           /\ my_state' = my_state
           /\ my_task' = my_task
           /\ kwargs_prompt' = kwargs_prompt ]_vars

\* C6 witness: on a session with an unrecognised model a button handler and
\* then handle_generation have failed, and the state is still TRANSCRIBING.
C6_Witness ==
    /\ last_op = "handle_generation"
    /\ raised = "ValueError"
    /\ my_model = "other"
    /\ button_pressed = TRUE
    /\ my_state = "TRANSCRIBING"
    /\ my_task = "idle"

\* C7: save_results without a preference writes nothing, and still resets
\* the session: a new uuid, state TRANSCRIBING and, with a non-empty list,
\* the next prompt of the cycle staged.
C7_SaveWithoutPreference ==
    [][ (last_op' = "save_results" /\ my_human_preference = None)
        => /\ results_dir' = results_dir
           /\ last_written' = last_written
           /\ my_uuid' # my_uuid
           /\ my_state' = "TRANSCRIBING"
           /\ prompts # << >> =>
                LET idx == NextIndex(current_prompt_index, Len(prompts)) IN
                /\ current_prompt_index' = idx + 1
                /\ my_prompt' = prompts[idx + 1].prompt
                /\ my_model' = prompts[idx + 1].model ]_vars

\* C7 witness: save_results has run on a two-prompt list, nothing was ever
\* written or attempted, and the second prompt is staged.
C7_Witness ==
    /\ last_op = "save_results"
    /\ printed = {}
    /\ results_dir = << >>
    /\ Len(prompts) = 2
    /\ staged_log = <<0, 1>>
    /\ my_prompt = prompts[2].prompt

\* C8: save_results with a preference set and a write that succeeds adds
\* exactly one file, named by the uuid the session had, holding a complete
\* record of the session's prompt, model, results and preference as they
\* were when save_results was called.
C8_SaveWritesSessionRecord ==
    [][ (last_op' = "save_results" /\ my_human_preference # None
         /\ "An error occurred while saving results" \notin printed')
        => /\ my_uuid \notin DOMAIN results_dir
           /\ DOMAIN results_dir' = (DOMAIN results_dir) \cup {my_uuid}
           /\ results_dir'[my_uuid] = TRUE
           /\ \A u \in DOMAIN results_dir : results_dir'[u] = results_dir[u]
           /\ last_written'.uuid = my_uuid
           /\ last_written'.data.prompt = my_prompt
           /\ last_written'.data.instruction = my_prompt
           /\ last_written'.data.model = my_model
           /\ last_written'.data.result_a = my_result_a
           /\ last_written'.data.result_b = my_result_b
           /\ last_written'.data.human_preference = my_human_preference ]_vars

\* C8 witness: the record of the previous session is on disk, with two
\* different non-empty results, and the session has been reset since.
C8_Witness ==
    /\ last_op = "save_results"
    /\ printed = {}
    /\ last_written.uuid = my_uuid - 1
    /\ last_written.uuid \in DOMAIN results_dir
    /\ results_dir[last_written.uuid] = TRUE
    /\ last_written.data.result_a # << >>
    /\ last_written.data.result_b # << >>
    /\ last_written.data.result_a # last_written.data.result_b
    /\ last_written.data.human_preference = "a"
    /\ my_result_a = << >>

\* C9: when the write of save_results fails, no exception leaves the
\* handler, the state is not ERROR, no record is added, and the session is
\* reset: state TRANSCRIBING, a new uuid and, with a non-empty list, the
\* next prompt of the cycle staged.
C9_SaveFailureNotFatal ==
    [][ (last_op' = "save_results"
         /\ "An error occurred while saving results" \in printed')
        => /\ raised' = "none"
           /\ my_state' = "TRANSCRIBING"
           /\ Records' = Records
           /\ my_uuid' # my_uuid
           /\ my_uuid' \notin DOMAIN results_dir'
           /\ my_human_preference' = None
           /\ prompts # << >> =>
                LET idx == NextIndex(current_prompt_index, Len(prompts)) IN
                /\ current_prompt_index' = idx + 1
                /\ my_prompt' = prompts[idx + 1].prompt
                /\ my_model' = prompts[idx + 1].model ]_vars

\* C9 witness: a write has failed after the file was created, and the
\* controller is in TRANSCRIBING on the next prompt.
C9_Witness ==
    /\ last_op = "save_results"
    /\ "An error occurred while saving results" \in printed
    /\ \E u \in DOMAIN results_dir : results_dir[u] = FALSE
    /\ Records = {}
    /\ my_state = "TRANSCRIBING"
    /\ staged_log = <<0, 1>>

\* C10: when load_prompts fails, the state after __init__ is ERROR and
\* get_next_prompt has not been performed (no prompt staged, no new uuid).
C10_LoadFailureEntersError ==
    (last_op = "__init__" /\ load_failed) =>
        /\ my_state = "ERROR"
        /\ my_uuid = uuid4(0)


\* C11 as stated: with an empty prompt list get_next_prompt changes no field
\* of the session and raises nothing.
C11_EmptyListResetIsNoOp ==
    [][ (prompts = << >> /\ last_op' \in {"get_next_prompt", "save_results"})
        => /\ raised' = "none"
           /\ UNCHANGED <<my_state, my_prompt, my_model, my_result_a,
                          my_result_b, my_human_preference, button_pressed,
                          my_uuid, current_prompt_index>> ]_vars

\* C11 as amended: with an empty prompt list get_next_prompt stages nothing
\* (prompt, model and cursor keep their values), raises nothing and prints
\* that no prompts are loaded; it still clears the results, the preference
\* and button_pressed, sets the state to TRANSCRIBING and draws a new uuid.
C11_EmptyListResetStagesNothing ==
    [][ (prompts = << >> /\ last_op' \in {"get_next_prompt", "save_results"})
        => /\ raised' = "none"
           /\ "No prompts are loaded." \in printed'
           /\ UNCHANGED <<my_prompt, my_model, current_prompt_index, staged_log>>
           /\ my_result_a' = << >>
           /\ my_result_b' = << >>
           /\ my_human_preference' = None
           /\ button_pressed' = FALSE
           /\ my_state' = "TRANSCRIBING"
           /\ my_uuid' # my_uuid ]_vars

\* C11 witness: prompts.json was loaded and held no prompt, and a later
\* get_next_prompt has run.
C11_Witness ==
    /\ ~load_failed
    /\ prompts = << >>
    /\ last_op = "get_next_prompt"
    /\ my_uuid = 3
    /\ my_prompt = None
    /\ "No prompts are loaded." \in printed


OneImagePrompt == <<[prompt |-> "p_sdxl", model |-> "sdxl"]>>

\* C13: on a list of one image prompt, __init__ leaves the state
\* TRANSCRIBING with that prompt staged; a run of handle_generation that ends
\* on the session it started on leaves REVIEW_IMG with both results the
\* images generated for the prompt; red_button_callback then gives
\* SELECT_A_IMG and preference 'a'; save_results then, on an empty /results
\* and with a write that succeeds, leaves exactly one record, with
\* human_preference 'a' and the session's prompt, model and results, and the
\* session reset to the same prompt: TRANSCRIBING, results empty, preference
\* unset.
C13_EndToEndImageScenario ==
    [][ prompts' = OneImagePrompt =>
        /\ last_op' = "__init__" =>
              /\ my_state' = "TRANSCRIBING"
              /\ my_prompt' = "p_sdxl" /\ my_model' = "sdxl"
              /\ my_result_a' = << >> /\ my_result_b' = << >>
              /\ my_human_preference' = None
        /\ (last_op' = "handle_image_gen_b" /\ task_uuid = my_uuid) =>
              /\ my_state' = "REVIEW_IMG"
              /\ my_result_a' = <<Output("img", "p_sdxl", TRUE)>>
              /\ my_result_b' = <<Output("img", "p_sdxl", TRUE)>>
        /\ (last_op' = "red_button_callback" /\ my_state = "REVIEW_IMG") =>
              /\ my_state' = "SELECT_A_IMG"
              /\ my_human_preference' = "a"
              /\ UNCHANGED <<my_result_a, my_result_b>>
        /\ (last_op' = "save_results" /\ my_state = "SELECT_A_IMG"
            /\ my_human_preference = "a" /\ results_dir = << >>
            /\ "An error occurred while saving results" \notin printed') =>
              /\ Records' = {my_uuid}
              /\ DOMAIN results_dir' = {my_uuid}
              /\ last_written'.data.human_preference = "a"
              /\ last_written'.data.prompt = "p_sdxl"
              /\ last_written'.data.model = "sdxl"
              /\ last_written'.data.result_a = my_result_a
              /\ last_written'.data.result_b = my_result_b
              /\ my_state' = "TRANSCRIBING"
              /\ my_prompt' = "p_sdxl" /\ my_model' = "sdxl"
              /\ my_result_a' = << >> /\ my_result_b' = << >>
              /\ my_human_preference' = None
              /\ my_uuid' # my_uuid ]_vars

\* C13 witness: the end of the scenario: one record with preference 'a' and
\* two images of the prompt, and the same prompt staged again.
C13_Witness ==
    /\ prompts = OneImagePrompt
    /\ last_op = "save_results"
    /\ staged_log = <<0, 0>>
    /\ Records = {my_uuid - 1}
    /\ Cardinality(DOMAIN results_dir) = 1
    /\ last_written.data.human_preference = "a"
    /\ last_written.data.result_a = <<Output("img", "p_sdxl", TRUE)>>
    /\ last_written.data.result_b = <<Output("img", "p_sdxl", TRUE)>>
    /\ first_choice = None
    /\ my_state = "TRANSCRIBING"
    /\ my_prompt = "p_sdxl"
    /\ my_result_a = << >>
    /\ my_result_b = << >>
    /\ my_human_preference = None


\* C14: call B is issued only by the step in which call A returns; while the
\* state is INFERENCE_*_A (call A has not returned) both results are empty,
\* while it is INFERENCE_*_B (call B has not returned) my_result_b is empty,
\* and in TRANSCRIBING both are empty.
C14_SlotsEmptyUntilGenerated ==
    /\ [][ (my_task' \in {"txt_b", "img_b"} /\ my_task' # my_task)
           => (/\ last_op' \in {"call_claude2_a", "handle_image_gen_a"}
               /\ my_task \in {"txt_a", "img_a"}
               /\ my_result_a' # << >>) ]_vars
    /\ [](/\ my_state \in {"INFERENCE_TXT_A", "INFERENCE_IMG_A"} =>
               (my_result_a = << >> /\ my_result_b = << >>)
          /\ my_state \in {"INFERENCE_TXT_B", "INFERENCE_IMG_B"} =>
               my_result_b = << >>
          /\ my_state = "TRANSCRIBING" =>
               (my_result_a = << >> /\ my_result_b = << >>))


\* The backend a model tag is served by.
KindOf(model) == IF model = "claude" THEN "txt" ELSE "img"

\* C15: the complete record written last (each record is, when it is
\* written) has human_preference 'a' or 'b', and both its results are
\* non-empty and consist of whole outputs generated for the record's own
\* prompt by the backend of the record's own model.
C15_RecordsOfCompletedSessions ==
    last_written.uuid \in Records =>
        LET d == last_written.data
            own == Output(KindOf(d.model), d.prompt, TRUE) IN
        /\ d.human_preference \in {"a", "b"}
        /\ d.model \in {"claude", "sdxl"}
        /\ d.result_a # << >>
        /\ d.result_b # << >>
        /\ \A i \in DOMAIN d.result_a : d.result_a[i] = own
        /\ \A i \in DOMAIN d.result_b : d.result_b[i] = own


\* The state the pipeline has set while the task is at position t.
InferenceState(t) ==
    IF t = "txt_a" THEN "INFERENCE_TXT_A"
    ELSE IF t = "txt_b" THEN "INFERENCE_TXT_B"
    ELSE IF t = "img_a" THEN "INFERENCE_IMG_A"
    ELSE "INFERENCE_IMG_B"

\* C16: when a backend call fails, the exception leaves the pipeline and the
\* task ends with no call in flight (the call is not issued again, and after
\* a failure of call A call B is not issued: my_result_b is untouched); the
\* state is left as it was, which is neither ERROR nor a REVIEW_* state, and
\* is the INFERENCE_* state of the failed call when the pipeline set the
\* state last.  A REVIEW_* state is entered only by the return of a call B.
C16_BackendFailurePropagates ==
    [][ /\ last_op' = "backend_fails" =>
              /\ raised' = "BackendError"
              /\ my_task' = "idle"
              /\ my_state' = my_state
              /\ my_state' \notin {"ERROR", "REVIEW_TXT", "REVIEW_IMG"}
              /\ my_task \in {"txt_a", "img_a"} => my_result_b' = my_result_b
              /\ last_op \in PipelineOps => my_state' = InferenceState(my_task)
        /\ (my_state' \in {"REVIEW_TXT", "REVIEW_IMG"} /\ my_state' # my_state) =>
              /\ last_op' \in {"call_claude2_b", "handle_image_gen_b"}
              /\ my_task \in {"txt_b", "img_b"} ]_vars

\* C16 witness: call A of an image run has failed: the state is still
\* INFERENCE_IMG_A, nothing is in flight and both results are empty.
C16_Witness ==
    /\ last_op = "backend_fails"
    /\ raised = "BackendError"
    /\ my_state = "INFERENCE_IMG_A"
    /\ my_task = "idle"
    /\ my_result_a = << >>
    /\ my_result_b = << >>


\* The states a button handler sets.
SelectStates == {"SELECT_A_TXT", "SELECT_B_TXT", "SELECT_A_IMG", "SELECT_B_IMG"}

\* C17: a SELECT_* state set by a button handler while a generation task is
\* in flight is not changed by the task when its calls return or fail: the
\* state stays a SELECT_* state until the session is reset.
C17_ChoiceNotOverwrittenByPipeline ==
    [][ (my_state \in SelectStates /\ my_task # "idle"
         /\ last_op' \in PipelineOps)
        => my_state' \in SelectStates ]_vars

\* C18: when a call of a run returns, the slot of the call holds the output
\* of that call and nothing else, also when the slot held the output of an
\* earlier run on the same session.
C18_SlotHoldsOutputOfLatestRun ==
    [][ /\ last_op' = "call_claude2_a" =>
              my_result_a' = <<Output("txt", kwargs_prompt, TRUE)>>
        /\ last_op' = "call_claude2_b" =>
              my_result_b' = <<Output("txt", kwargs_prompt, TRUE)>>
        /\ last_op' = "handle_image_gen_a" =>
              my_result_a' = <<Output("img", kwargs_prompt, TRUE)>>
        /\ last_op' = "handle_image_gen_b" =>
              my_result_b' = <<Output("img", kwargs_prompt, TRUE)>> ]_vars

\* The states of the text family and of the image family.
TxtStates == {"INFERENCE_TXT_A", "INFERENCE_TXT_B", "REVIEW_TXT",
              "SELECT_A_TXT", "SELECT_B_TXT"}

ImgStates == {"INFERENCE_IMG_A", "INFERENCE_IMG_B", "REVIEW_IMG",
              "SELECT_A_IMG", "SELECT_B_IMG"}

\* C19: in a state of the text family the model of the session is "claude",
\* in a state of the image family it is "sdxl".
C19_StateFamilyMatchesModel ==
    /\ my_state \in TxtStates => my_model = "claude"
    /\ my_state \in ImgStates => my_model = "sdxl"


-----------------------------------------------------------------------------
\* The controller under the hypotheses of the progress claim: the prompt file
\* loads and holds at least one prompt, every prompt names a recognised
\* model, and every backend call returns.

LivePromptFiles ==
    { pl \in PromptFiles :
        pl # << >> /\ \A i \in DOMAIN pl : Recognised(pl[i].model) }

InitializeLive ==
    /\ Initialize
    /\ load_failed' = FALSE
    /\ prompts' \in LivePromptFiles

LiveNext ==
    \/ InitializeLive
    \/ get_next_prompt
    \/ red_button_callback
    \/ blue_button_callback
    \/ handle_generation
    \/ call_claude2_a
    \/ call_claude2_b
    \/ handle_image_gen_a
    \/ handle_image_gen_b
    \/ save_results

\* A started task runs on: each backend call that is pending returns.  The
\* handlers called by the driver of the kiosk (the buttons, the reset, the
\* save, the start of a generation) carry no fairness.
LiveSpec ==
    /\ Init
    /\ [][LiveNext]_vars
    /\ WF_vars(call_claude2_a)
    /\ WF_vars(call_claude2_b)
    /\ WF_vars(handle_image_gen_a)
    /\ WF_vars(handle_image_gen_b)

\* The two states in which both results are shown for review.
ReviewStates == {"REVIEW_TXT", "REVIEW_IMG"}

\* A started generation task reaches REVIEW_TXT or REVIEW_IMG.
GenerationReachesReview == (my_task # "idle") ~> (my_state \in ReviewStates)

\* save_results on a session with a registered choice puts the controller
\* in TRANSCRIBING on the next prompt of the list, under a new uuid.
SaveAdvances ==
    (last_op' = "save_results" /\ my_human_preference # None)
    => LET idx == NextIndex(current_prompt_index, Len(prompts)) IN
       /\ raised' = "none"
       /\ my_state' = "TRANSCRIBING"
       /\ my_uuid' # my_uuid
       /\ current_prompt_index' = idx + 1
       /\ my_prompt' = prompts[idx + 1].prompt
       /\ my_model' = prompts[idx + 1].model

\* No state is stuck: the constructor can run on a new controller, the next
\* step of a task in flight can be taken, and (while the model still has a
\* session id to issue) the session can be reset and saved.
NeverStuck ==
    /\ pc = "new" => ENABLED <<InitializeLive>>_vars
    /\ my_task # "idle" =>
          ENABLED <<call_claude2_a \/ call_claude2_b
                    \/ handle_image_gen_a \/ handle_image_gen_b>>_vars
    /\ (pc = "ready" /\ my_uuid < MaxSessions) =>
          /\ ENABLED <<get_next_prompt>>_vars
          /\ ENABLED <<save_results>>_vars

\* C20 (as stated): under fairness, with a non-empty list of recognised
\* models and backend calls that return, a started generation reaches
\* REVIEW_TXT or REVIEW_IMG; save_results on a session with a registered
\* choice leaves the record of the session persisted and the controller in
\* TRANSCRIBING on the next prompt; and no state is stuck.
C20_SessionEndsWithRecordPersisted ==
    /\ GenerationReachesReview
    /\ [][ /\ SaveAdvances
           /\ (last_op' = "save_results" /\ my_human_preference # None)
              => my_uuid \in Records' ]_vars
    /\ []NeverStuck

\* C20 (amended): as above, but the record of the session is persisted when
\* the write succeeds; when it fails the failure is logged, no complete
\* record is added, and the controller advances all the same.
C20_LifecycleProgress ==
    /\ GenerationReachesReview
    /\ [][ /\ SaveAdvances
           /\ (last_op' = "save_results" /\ my_human_preference # None)
              => IF "An error occurred while saving results" \in printed'
                 THEN Records' = Records
                 ELSE Records' = Records \cup {my_uuid} /\ my_uuid \notin Records
         ]_vars
    /\ []NeverStuck

\* A session went through generation and review, a choice was registered,
\* and save_results persisted its record and staged the next prompt.
C20_Witness ==
    /\ last_op = "save_results"
    /\ load_failed = FALSE
    /\ prompts \in LivePromptFiles
    /\ last_written.uuid \in Records
    /\ last_written.uuid = my_uuid - 1
    /\ last_written.data.result_a # << >>
    /\ last_written.data.result_b # << >>
    /\ last_written.data.human_preference # None
    /\ my_state = "TRANSCRIBING"
    /\ my_task = "idle"

====
